---- MODULE Spec2Model ----
(***************************************************************************)
(* The favorites endpoints of functions/src/index.ts (toggleFavorite and   *)
(* getFavorites) over the Firestore collection users/{userId}/favorites.   *)
(*                                                                         *)
(* A request handler runs to completion between two awaits, so one action  *)
(* is one such run: the synchronous prefix of a handler up to its first    *)
(* await, the store answering tx.get and the transaction callback's body,  *)
(* the store deciding the commit and the continuation that sends the       *)
(* answer.                                                                 *)
(* The store is the collaborator the handlers call: documents addressed by *)
(* path, a read inside a transaction records the document's version, the   *)
(* commit applies the buffered write atomically when the version is still  *)
(* the one read and reports a conflict otherwise, a conflict re-runs the   *)
(* callback up to MaxAttempts times, and a store error is reported before  *)
(* any effect.                                                             *)
(***************************************************************************)
EXTENDS Integers, Sequences, FiniteSets, TLC

\* Request slots of one behaviour.
MaxReqs == 3
\* Attempts runTransaction makes before it gives up (the source sets none).
MaxAttempts == 2

Reqs == 1..MaxReqs

----------------------------------------------------------------------------
(* Strings are sequences of one-character strings.                         *)

LowerSeq == <<"a","b","c","d","e","f","g","h","i","j","k","l","m",
              "n","o","p","q","r","s","t","u","v","w","x","y","z">>
UpperSeq == <<"A","B","C","D","E","F","G","H","I","J","K","L","M",
              "N","O","P","Q","R","S","T","U","V","W","X","Y","Z">>
DigitSeq == <<"0","1","2","3","4","5","6","7","8","9">>

Range(s) == {s[i] : i \in DOMAIN s}
Whitespace == {" ", "\t", "\n"}

RECURSIVE TrimStart(_)
TrimStart(s) ==
  IF s # <<>> /\ Head(s) \in Whitespace THEN TrimStart(Tail(s)) ELSE s

RECURSIVE TrimEnd(_)
TrimEnd(s) ==
  IF s # <<>> /\ s[Len(s)] \in Whitespace
    THEN TrimEnd(SubSeq(s, 1, Len(s) - 1))
    ELSE s

\* String.prototype.trim
Trim(s) == TrimEnd(TrimStart(s))

\* String.prototype.toLowerCase
ToLowerCase(s) ==
  [i \in DOMAIN s |->
     IF \E k \in DOMAIN UpperSeq : UpperSeq[k] = s[i]
       THEN LowerSeq[CHOOSE k \in DOMAIN UpperSeq : UpperSeq[k] = s[i]]
       ELSE s[i]]

UserIdMinLen == 3
UserIdMaxLen == 128
CoinIdMinLen == 2
CoinIdMaxLen == 100

\* !userId || !/^[a-zA-Z0-9_-]{3,128}$/.test(userId), negated
UserIdOk(userId) ==
  /\ userId # <<>>
  /\ Len(userId) >= UserIdMinLen
  /\ Len(userId) <= UserIdMaxLen
  /\ Range(userId) \subseteq
       Range(LowerSeq) \cup Range(UpperSeq) \cup Range(DigitSeq) \cup {"_", "-"}

\* !coinId || !/^[a-z0-9-]{2,100}$/.test(coinId), negated
CoinIdOk(coinId) ==
  /\ coinId # <<>>
  /\ Len(coinId) >= CoinIdMinLen
  /\ Len(coinId) <= CoinIdMaxLen
  /\ Range(coinId) \subseteq Range(LowerSeq) \cup Range(DigitSeq) \cup {"-"}

\* A JSON value of a request: a string, or a missing field.
Str(s) == [t |-> "string", s |-> s]
Undefined == [t |-> "undefined", s |-> <<>>]

\* typeof body.userId === "string" ? body.userId.trim() : ""
ToggleUserId(h) == IF h.userId.t = "string" THEN Trim(h.userId.s) ELSE <<>>

\* typeof body.coinId === "string" ? body.coinId.trim().toLowerCase() : ""
ToggleCoinId(h) ==
  IF h.coinId.t = "string" THEN ToLowerCase(Trim(h.coinId.s)) ELSE <<>>

\* String(method === "GET" ? query.userId || "" : body.userId || "").trim()
ListUserId(h) ==
  LET raw == IF h.method = "GET" THEN h.query ELSE h.userId IN
    IF raw.t = "string" THEN Trim(raw.s) ELSE <<>>

----------------------------------------------------------------------------
(* The requests the callers send.                                          *)

USR == <<"u","s","r">>
U_2 == <<"U","_","2">>
BTC == <<"b","t","c">>
ETH == <<"e","t","h">>
XRP == <<"x","r","p">>

\* method, query.userId, body.userId, body.coinId
Http(method, query, userId, coinId) ==
  [method |-> method, query |-> query, userId |-> userId, coinId |-> coinId]

NoHttp == Http("", Undefined, Undefined, Undefined)

\* toggleFavorite requests that pass the validation (one needs trim and
\* toLowerCase) ...
GoodToggles ==
  { Http("POST", Undefined, Str(USR), Str(BTC)),
    Http("POST", Undefined, Str(USR), Str(XRP)),
    Http("POST", Undefined, Str(<<" ","U","_","2">>), Str(<<"B","t","c"," ">>)) }

\* ... and ones it is there to stop.
BadToggles ==
  { Http("POST", Undefined, Str(USR), Str(<<"A","B","!">>)),
    Http("POST", Undefined, Str(<<>>), Str(BTC)),
    Http("POST", Undefined, Str(USR), Undefined),
    Http("POST", Str(USR), Str(<<"u","s">>), Str(BTC)),
    Http("GET", Undefined, Str(USR), Str(BTC)),
    Http("OPTIONS", Undefined, Str(USR), Str(BTC)) }

ToggleRequests == GoodToggles \cup BadToggles

\* getFavorites requests: userId is query.userId (GET) or body.userId (POST).
GoodLists ==
  { Http("GET", Str(USR), Undefined, Undefined),
    Http("POST", Undefined, Str(<<"U","_","2"," ">>), Undefined) }

BadLists ==
  { Http("GET", Undefined, Str(USR), Undefined),
    Http("POST", Undefined, Str(<<"u","$","r">>), Undefined),
    Http("PUT", Str(USR), Str(USR), Undefined),
    Http("OPTIONS", Str(USR), Undefined, Undefined) }

ListRequests == GoodLists \cup BadLists

----------------------------------------------------------------------------
(* The response envelope {status, message, data}.                          *)

Envelope(status, message) ==
  [status |-> status, message |-> message, data |-> "null",
   favorited |-> FALSE, favorites |-> <<>>]

Preflight == Envelope(204, "")
MethodNotAllowed == Envelope(405, "Method Not Allowed")
InvalidUserId == Envelope(400, "Invalid or missing 'userId'")
InvalidCoinId == Envelope(400, "Invalid or missing 'coinId'")
ToggleFailed == Envelope(500, "Failed to toggle favorite")
ListFailed == Envelope(500, "Failed to fetch favorites")

\* res.status(200).json({status: 200, message: favorited ? ... , data: {favorited}})
Toggled(favorited) ==
  [status |-> 200,
   message |-> IF favorited THEN "Added to favorites" ELSE "Removed from favorites",
   data |-> "favorited", favorited |-> favorited, favorites |-> <<>>]

\* res.status(200).json({status: 200, message: ..., data: {favorites}})
Listed(favorites) ==
  [status |-> 200, message |-> "Favorites fetched successfully",
   data |-> "favorites", favorited |-> FALSE, favorites |-> favorites]

----------------------------------------------------------------------------
VARIABLES
  docs,       \* the documents of users/*/favorites: [ref, coinId, createdAt]
  ver,        \* ref -> server time of the last committed write to it
  clock,      \* the store's server time
  wlog,       \* the store's committed writes, in commit order
  reached,    \* request -> its handler has called the store
  req,        \* request -> the handler's local state
  sent,       \* request -> the responses written to res
  abandoned,  \* request -> its caller has timed out on it
  prior       \* request -> the toggles of its key its caller was through with

store == <<docs, ver, clock, wlog>>
vars == <<docs, ver, clock, wlog, reached, req, sent, abandoned, prior>>

NoRef == [user |-> <<>>, id |-> <<>>]
NoSnap == [exists |-> FALSE, ver |-> -1, reads |-> {}]

Idle ==
  [kind |-> "none", http |-> NoHttp, pc |-> "idle", userId |-> <<>>,
   coinId |-> <<>>, ref |-> NoRef, attempt |-> 0, snap |-> NoSnap,
   write |-> "none", result |-> FALSE]

\* db.collection("users").doc(userId).collection("favorites").doc(): a
\* document with an id of the store's making, new for each request.
FavoriteRefAutoId(userId, coinId) ==
  [user |-> userId,
   id |-> <<"#", DigitSeq[1 + Cardinality({q \in Reqs : req[q].pc # "idle"})]>>]

\* db.collection("users").doc(userId).collection("favorites").doc(userId):
\* one document for all the coins of a user.
FavoriteRefByUser(userId, coinId) == [user |-> userId, id |-> userId]

\* db.collection("users").doc(userId).collection("favorites").doc(coinId)
FavoriteRef(userId, coinId) == [user |-> userId, id |-> coinId]

Exists(ds, ref) == \E d \in ds : d.ref = ref
VerOf(ref) == IF ref \in DOMAIN ver THEN ver[ref] ELSE 0

\* The documents of users/{userId}/favorites.
Favorites(ds, userId) == {d \in ds : d.ref.user = userId}

\* .orderBy("createdAt", "asc").get(), then docs.map((d) => d.id)
RECURSIVE OrderByCreatedAtAsc(_)
OrderByCreatedAtAsc(ds) ==
  IF ds = {} THEN <<>>
  ELSE LET top == CHOOSE d \in ds : \A e \in ds : e.createdAt >= d.createdAt
       IN  <<top.ref.id>> \o OrderByCreatedAtAsc(ds \ {top})

\* .orderBy("createdAt", "desc").get(), then docs.map((d) => d.id)
RECURSIVE OrderByCreatedAtDesc(_)
OrderByCreatedAtDesc(ds) ==
  IF ds = {} THEN <<>>
  ELSE LET top == CHOOSE d \in ds : \A e \in ds : e.createdAt <= d.createdAt
       IN  <<top.ref.id>> \o OrderByCreatedAtDesc(ds \ {top})

Listing(ds, userId) == OrderByCreatedAtDesc(Favorites(ds, userId))

----------------------------------------------------------------------------
(* The store.                                                              *)

\* The documents at the start: user usr has toggled btc, then eth, on (at
\* server times 1 and 2); nobody else has a favorite.
InitOrder == <<[user |-> USR, id |-> BTC], [user |-> USR, id |-> ETH]>>
InitDocs ==
  {[ref |-> InitOrder[i], coinId |-> InitOrder[i].id, createdAt |-> i] :
     i \in DOMAIN InitOrder}

\* What a committed write did to the document at ref.
Effect(ds, ds2, ref) ==
  IF ~Exists(ds, ref) /\ Exists(ds2, ref) THEN "created"
  ELSE IF Exists(ds, ref) /\ ~Exists(ds2, ref) THEN "removed"
  ELSE IF {d \in ds : d.ref = ref} = {d \in ds2 : d.ref = ref} THEN "none"
  ELSE "overwritten"

\* The documents after the write: set() replaces the document at ref by the
\* data, FieldValue.serverTimestamp() resolved to the commit time; delete()
\* removes it.
Written(ds, op, ref, coinId, time) ==
  IF op = "set"
    THEN {d \in ds : d.ref # ref}
           \cup {[ref |-> ref, coinId |-> coinId, createdAt |-> time]}
    ELSE {d \in ds : d.ref # ref}

\* The store commits request r's buffered write at the next server time.
StoreCommit(r, op, ref, coinId) ==
  LET time == clock + 1
      ds2 == Written(docs, op, ref, coinId, time)
  IN  /\ docs' = ds2
      /\ clock' = time
      /\ ver' = [x \in DOMAIN ver \cup {ref} |-> IF x = ref THEN time ELSE ver[x]]
      /\ wlog' = Append(wlog, [by |-> r, ref |-> ref, time |-> time,
                               coinId |-> coinId,
                               effect |-> Effect(docs, ds2, ref)])

\* favoriteRef.get(): a read outside the transaction, which the commit does
\* not validate.
SnapshotOutsideTx(ref) ==
  [exists |-> Exists(docs, ref), ver |-> VerOf(ref), reads |-> {}]

\* tx.get(favoriteRef): the snapshot, and the document and version the commit
\* will validate.
Snapshot(ref) ==
  [exists |-> Exists(docs, ref), ver |-> VerOf(ref), reads |-> {ref}]

\* The commit validates that the documents the transaction read have not been
\* written since.
Validates(r) == \A x \in req[r].snap.reads : VerOf(x) = req[r].snap.ver

----------------------------------------------------------------------------
(* The handlers.                                                           *)

\* Slots are taken in order.
CanStart(r) ==
  /\ req[r].pc = "idle"
  /\ \A q \in Reqs : q < r => req[q].pc # "idle"

Rejected(q) == sent[q] # <<>> /\ sent[q][1].status \in {204, 400, 405}

\* A behaviour has at most one request that is answered before the store is
\* called: such a request reads and writes nothing the others see.
Admitted(reply) == reply = <<>> \/ \A q \in Reqs : ~Rejected(q)

\* The toggles of key ref whose caller has seen them end: answered, or timed
\* out.
Through(ref) ==
  {q \in Reqs : /\ req[q].kind = "toggle" /\ req[q].ref = ref
                /\ req[q].pc = "done" \/ abandoned[q]}

\* The handler has returned: its locals are gone.
Returned(q) ==
  [Idle EXCEPT !.kind = q.kind, !.http = q.http, !.pc = "done",
               !.userId = q.userId, !.coinId = q.coinId, !.ref = q.ref,
               !.attempt = q.attempt]

\* What toggleFavorite answers before it calls the store, if anything.
ToggleReply(h) ==
  IF h.method = "OPTIONS" THEN <<Preflight>>
  ELSE IF h.method # "POST" THEN <<MethodNotAllowed>>
  ELSE IF ~UserIdOk(ToggleUserId(h)) THEN <<InvalidUserId>>
  ELSE IF ~CoinIdOk(ToggleCoinId(h)) THEN <<InvalidCoinId>>
  ELSE <<>>

\* An early answer without its return.
ToggleProceedsAnyway(reply) == TRUE

\* Each early answer is followed by return: the handler goes on to the store
\* only when it has answered nothing.
ToggleProceeds(reply) == reply = <<>>

\* toggleFavorite up to its first await, on a request of hs: the verb and the
\* identifiers are checked, then runTransaction starts its first attempt.
ToggleArrives(r, hs) ==
  /\ CanStart(r)
  /\ \E h \in hs :
       LET reply == ToggleReply(h)
           userId == ToggleUserId(h)
           coinId == ToggleCoinId(h)
           go == ToggleProceeds(reply)
           ref == IF go THEN FavoriteRef(userId, coinId) ELSE NoRef
       IN  /\ Admitted(reply)
           /\ req' = [req EXCEPT ![r] =
                [Idle EXCEPT !.kind = "toggle", !.http = h,
                             !.userId = userId, !.coinId = coinId, !.ref = ref,
                             !.pc = IF go THEN "get" ELSE "done",
                             !.attempt = IF go THEN 1 ELSE 0]]
           /\ sent' = [sent EXCEPT ![r] = reply]
           /\ reached' = [reached EXCEPT ![r] = go]
           /\ prior' = [prior EXCEPT ![r] = Through(ref)]
  /\ UNCHANGED <<store, abandoned>>

ToggleFavorite(r) == ToggleArrives(r, ToggleRequests)

\* A caller sends, or sends again, a toggle of one of usr's coins.
RetriedRequests ==
  { Http("POST", Undefined, Str(USR), Str(BTC)),
    Http("POST", Undefined, Str(USR), Str(XRP)) }

ToggleFavoriteAgain(r) == ToggleArrives(r, RetriedRequests)

\* tx.set(...) on both branches.
CallbackWriteAlwaysSet(snap) == "set"

\* if (snap.exists) { tx.delete(favoriteRef); ... } else { tx.set(...); ... }
CallbackWrite(snap) == IF snap.exists THEN "delete" ELSE "set"

\* The two return values exchanged.
CallbackResultSwapped(snap) == snap.exists

\* if (snap.exists) { ...; return false; } else { ...; return true; }
CallbackResult(snap) == ~snap.exists

\* The callback writes with favoriteRef.delete() and favoriteRef.set(...), not
\* through tx: the write is applied when the callback runs, whatever becomes
\* of the attempt.
TxGetWritesThrough(r) ==
  /\ req[r].kind = "toggle" /\ req[r].pc = "get"
  /\ LET snap == Snapshot(req[r].ref) IN
       /\ req' = [req EXCEPT ![r].snap = snap,
                             ![r].write = CallbackWrite(snap),
                             ![r].result = CallbackResult(snap),
                             ![r].pc = "commit"]
       /\ StoreCommit(r, CallbackWrite(snap), req[r].ref, req[r].coinId)
  /\ UNCHANGED <<reached, sent, abandoned, prior>>

\* The store answers tx.get and the transaction callback runs: it buffers
\* delete or set and returns false or true.
TxGet(r) ==
  /\ req[r].kind = "toggle" /\ req[r].pc = "get"
  /\ LET snap == Snapshot(req[r].ref) IN
       req' = [req EXCEPT ![r].snap = snap,
                          ![r].write = CallbackWrite(snap),
                          ![r].result = CallbackResult(snap),
                          ![r].pc = "commit"]
  /\ UNCHANGED <<store, reached, sent, abandoned, prior>>

\* The store decides the commit. It applies the write, runTransaction
\* resolves with the callback's value and the handler answers 200; or it
\* reports a conflict, on which runTransaction runs the callback again or
\* gives up and the handler's catch answers 500.
TxCommit(r) ==
  /\ req[r].kind = "toggle" /\ req[r].pc = "commit"
  /\ IF Validates(r)
       THEN /\ StoreCommit(r, req[r].write, req[r].ref, req[r].coinId)
            /\ req' = [req EXCEPT ![r] = Returned(@)]
            /\ sent' = [sent EXCEPT ![r] = Append(@, Toggled(req[r].result))]
       ELSE /\ UNCHANGED store
            /\ IF req[r].attempt < MaxAttempts
                 THEN /\ req' = [req EXCEPT ![r].pc = "get",
                                            ![r].attempt = @ + 1,
                                            ![r].snap = NoSnap,
                                            ![r].write = "none",
                                            ![r].result = FALSE]
                      /\ sent' = sent
                 ELSE /\ req' = [req EXCEPT ![r] = Returned(@)]
                      /\ sent' = [sent EXCEPT ![r] = Append(@, ToggleFailed)]
  /\ UNCHANGED <<reached, abandoned, prior>>

\* A catch that falls back to an unconditional write outside any transaction
\* before it answers 500.
ToggleStoreErrorFallback(r) ==
  /\ req[r].kind = "toggle" /\ req[r].pc \in {"get", "commit"}
  /\ StoreCommit(r, CallbackWrite(Snapshot(req[r].ref)), req[r].ref, req[r].coinId)
  /\ req' = [req EXCEPT ![r] = Returned(@)]
  /\ sent' = [sent EXCEPT ![r] = Append(@, ToggleFailed)]
  /\ UNCHANGED <<reached, abandoned, prior>>

\* A catch that logs and answers nothing.
ToggleStoreErrorUnanswered(r) ==
  /\ req[r].kind = "toggle" /\ req[r].pc \in {"get", "commit"}
  /\ req' = [req EXCEPT ![r] = Returned(@)]
  /\ UNCHANGED <<store, reached, sent, abandoned, prior>>

\* The store fails a tx.get or a commit: runTransaction rejects and the
\* handler's catch answers 500.
ToggleStoreError(r) ==
  /\ req[r].kind = "toggle" /\ req[r].pc \in {"get", "commit"}
  /\ req' = [req EXCEPT ![r] = Returned(@)]
  /\ sent' = [sent EXCEPT ![r] = Append(@, ToggleFailed)]
  /\ UNCHANGED <<store, reached, abandoned, prior>>

\* What getFavorites answers before it calls the store, if anything.
ListReply(h) ==
  IF h.method = "OPTIONS" THEN <<Preflight>>
  ELSE IF h.method # "GET" /\ h.method # "POST" THEN <<MethodNotAllowed>>
  ELSE IF ~UserIdOk(ListUserId(h)) THEN <<InvalidUserId>>
  ELSE <<>>

\* Each early answer is followed by return.
ListProceeds(reply) == reply = <<>>

\* getFavorites up to its await of the query.
GetFavorites(r) ==
  /\ CanStart(r)
  /\ \E h \in ListRequests :
       LET reply == ListReply(h) IN
         /\ Admitted(reply)
         /\ req' = [req EXCEPT ![r] =
              [Idle EXCEPT !.kind = "list", !.http = h,
                           !.userId = ListUserId(h),
                           !.pc = IF ListProceeds(reply) THEN "query" ELSE "done"]]
         /\ sent' = [sent EXCEPT ![r] = reply]
         /\ reached' = [reached EXCEPT ![r] = ListProceeds(reply)]
  /\ UNCHANGED <<store, abandoned, prior>>

\* The store answers the query and the handler sends the ids.
ListRespond(r) ==
  /\ req[r].kind = "list" /\ req[r].pc = "query"
  /\ req' = [req EXCEPT ![r] = Returned(@)]
  /\ sent' = [sent EXCEPT ![r] = Append(@, Listed(Listing(docs, req[r].userId)))]
  /\ UNCHANGED <<store, reached, abandoned, prior>>

\* The store fails the query: the handler's catch answers 500.
ListStoreError(r) ==
  /\ req[r].kind = "list" /\ req[r].pc = "query"
  /\ req' = [req EXCEPT ![r] = Returned(@)]
  /\ sent' = [sent EXCEPT ![r] = Append(@, ListFailed)]
  /\ UNCHANGED <<store, reached, abandoned, prior>>

\* The caller of a toggle gives up waiting (one caller of a behaviour does);
\* the handler goes on.
Abandon(r) ==
  /\ req[r].kind = "toggle" /\ req[r].pc \in {"get", "commit"}
  /\ \A q \in Reqs : ~abandoned[q]
  /\ abandoned' = [abandoned EXCEPT ![r] = TRUE]
  /\ UNCHANGED <<store, reached, req, sent, prior>>

----------------------------------------------------------------------------
Init ==
  /\ docs = InitDocs
  /\ ver = [x \in Range(InitOrder) |->
              CHOOSE i \in DOMAIN InitOrder : InitOrder[i] = x]
  /\ clock = Len(InitOrder)
  /\ wlog = <<>>
  /\ reached = [r \in Reqs |-> FALSE]
  /\ req = [r \in Reqs |-> Idle]
  /\ sent = [r \in Reqs |-> <<>>]
  /\ abandoned = [r \in Reqs |-> FALSE]
  /\ prior = [r \in Reqs |-> {}]

ToggleStep(r) ==
  \/ TxGet(r)
  \/ TxCommit(r)
  \/ ToggleStoreError(r)

ListStep(r) ==
  \/ ListRespond(r)
  \/ ListStoreError(r)

Next ==
  \E r \in Reqs :
    \/ ToggleFavorite(r)
    \/ GetFavorites(r)
    \/ ToggleStep(r)
    \/ ListStep(r)

Spec == Init /\ [][Next]_vars

\* Toggles whose callers may time out and send the request again.
TimeoutNext ==
  \E r \in Reqs :
    \/ ToggleFavoriteAgain(r)
    \/ ToggleStep(r)
    \/ Abandon(r)

TimeoutSpec == Init /\ [][TimeoutNext]_vars

\* Toggles contending for usr's coins, whose callers wait: every pending
\* continuation runs and the store answers every call.
ContendedNext ==
  \E r \in Reqs :
    \/ ToggleFavoriteAgain(r)
    \/ ToggleStep(r)

FairSpec ==
  Init /\ [][ContendedNext]_vars /\ \A r \in Reqs : WF_vars(ToggleStep(r))

----------------------------------------------------------------------------
(* The properties, and what they speak of.                                 *)

\* The toggles of key ref that went on to the store.
Toggles(ref) ==
  {r \in Reqs : req[r].kind = "toggle" /\ reached[r] /\ req[r].ref = ref}

Keys == {req[r].ref : r \in {q \in Reqs : req[q].kind = "toggle" /\ reached[q]}}

\* Request r has ended and its one answer has this status.
Answered(r, status) ==
  req[r].pc = "done" /\ Len(sent[r]) = 1 /\ sent[r][1].status = status

\* The committed writes of request r.
WritesBy(r) == {i \in DOMAIN wlog : wlog[i].by = r}

\* The committed writes to key ref.
WritesTo(ref) == {i \in DOMAIN wlog : wlog[i].ref = ref}

Odd(n) == n % 2 = 1

\* C1: when the toggles of a key that was absent at the start have all ended
\* and all were answered 200, under whatever interleaving of their reads,
\* commits, conflicts and retries, the entry is present if their number is
\* odd and absent if it is even, and the answers favorited=true outnumber the
\* answers favorited=false by that one (of two toggles, exactly one created).
C1_ParityOfToggles ==
  \A k \in Keys :
    (/\ ~Exists(InitDocs, k)
     /\ \A r \in Toggles(k) : Answered(r, 200))
    => LET n == Cardinality(Toggles(k))
           created == {r \in Toggles(k) : sent[r][1].favorited}
       IN  /\ Exists(docs, k) <=> Odd(n)
           /\ Cardinality(created) = (n + 1) \div 2

\* Three toggles of an absent key, none ended before another came, one of
\* them committed on its second attempt, all answered 200.
C1_Witness ==
  \E k \in Keys :
    /\ ~Exists(InitDocs, k)
    /\ Cardinality(Toggles(k)) = 3
    /\ \A r \in Toggles(k) : Answered(r, 200) /\ prior[r] = {}
    /\ \E r \in Toggles(k) : req[r].attempt = 2
    /\ Exists(docs, k)

\* C2: a toggle answered 200 has committed exactly one write, to its own
\* key, and reports what that write did: favorited=true exactly when it
\* created the entry, favorited=false exactly when it removed it, also when
\* an earlier attempt was aborted on a conflict. Three toggles of a key with
\* no entry, each sent after the one before was answered, return true,
\* false, true.
C2_ReportsOwnTransition ==
  /\ \A r \in Reqs :
       (req[r].kind = "toggle" /\ Answered(r, 200))
       => /\ Cardinality(WritesBy(r)) = 1
          /\ \A i \in WritesBy(r) :
               /\ wlog[i].ref = req[r].ref
               /\ sent[r][1].favorited <=> wlog[i].effect = "created"
               /\ ~sent[r][1].favorited <=> wlog[i].effect = "removed"
  /\ \A k \in Keys : \A r1, r2, r3 \in Toggles(k) :
       (/\ ~Exists(InitDocs, k)
        /\ Toggles(k) = {r1, r2, r3}
        /\ prior[r1] = {} /\ prior[r2] = {r1} /\ prior[r3] = {r1, r2}
        /\ \A r \in Toggles(k) : Answered(r, 200))
       => /\ sent[r1][1].favorited
          /\ ~sent[r2][1].favorited
          /\ sent[r3][1].favorited

\* A toggle whose first attempt was aborted and whose second removed the
\* entry, answered 200.
C2_Witness ==
  \E r \in Reqs :
    /\ req[r].kind = "toggle" /\ Answered(r, 200)
    /\ req[r].attempt = 2
    /\ ~sent[r][1].favorited
    /\ \E i \in WritesBy(r) : wlog[i].effect = "removed"

NoDuplicates(s) == \A i, j \in DOMAIN s : s[i] = s[j] => i = j

\* C4: in every reachable state the store holds at most one favorite per
\* (userId, coinId) and per document reference, and no getFavorites answer
\* names a coin twice.
C4_OneEntryPerPair ==
  /\ \A d, e \in docs :
       (d.ref.user = e.ref.user /\ d.coinId = e.coinId) => d = e
  /\ \A d, e \in docs : d.ref = e.ref => d = e
  /\ \A r \in Reqs :
       (req[r].kind = "list" /\ Answered(r, 200))
       => NoDuplicates(sent[r][1].favorites)

\* Two toggles of one key, neither ended when the other came, both
\* committed, and a listing that names the coin.
C4_Witness ==
  \E r \in Reqs :
    /\ req[r].kind = "list" /\ Answered(r, 200)
    /\ \E i \in DOMAIN sent[r][1].favorites :
         LET k == FavoriteRef(req[r].userId, sent[r][1].favorites[i]) IN
           /\ Cardinality(Toggles(k)) = 2
           /\ Cardinality(WritesTo(k)) = 2
           /\ \A q \in Toggles(k) : Answered(q, 200) /\ prior[q] = {}

\* The first answer of request r is a rejection with this status.
RejectedWith(r, status) == sent[r] # <<>> /\ sent[r][1].status = status

\* C6: a request answered 400 or 405 never reaches the store: its handler
\* has returned with that one answer, it has started no transaction, read
\* nothing and committed nothing. The identifiers "AB!" (coinId) and ""
\* (userId) are answered 400, a GET to toggleFavorite and a PUT to
\* getFavorites 405.
C6_RejectedNeverReachesStore ==
  /\ \A r \in Reqs :
       (RejectedWith(r, 400) \/ RejectedWith(r, 405))
       => /\ ~reached[r]
          /\ req[r].pc = "done" /\ Len(sent[r]) = 1
          /\ req[r].attempt = 0 /\ req[r].snap = NoSnap
          /\ WritesBy(r) = {}
  /\ \A r \in Reqs :
       /\ (req[r].kind = "toggle" /\ req[r].http.method = "POST"
             /\ req[r].http.coinId = Str(<<"A", "B", "!">>))
          => RejectedWith(r, 400)
       /\ (req[r].kind = "toggle" /\ req[r].http.method = "POST"
             /\ req[r].http.userId = Str(<<>>))
          => RejectedWith(r, 400)
       /\ (req[r].kind = "toggle" /\ req[r].http.method = "GET")
          => RejectedWith(r, 405)
       /\ (req[r].kind = "list" /\ req[r].http.method = "PUT")
          => RejectedWith(r, 405)

\* A request answered 400 while a transaction of another is between its
\* read and its commit, after a third has committed.
C6_Witness ==
  \E r, q \in Reqs :
    /\ RejectedWith(r, 400) /\ req[r].pc = "done"
    /\ req[q].pc = "commit"
    /\ wlog # <<>>

\* The documents a log of committed writes leaves of ds.
ApplyWrite(ds, w) ==
  IF w.effect \in {"created", "overwritten"}
    THEN {d \in ds : d.ref # w.ref}
           \cup {[ref |-> w.ref, coinId |-> w.coinId, createdAt |-> w.time]}
  ELSE IF w.effect = "removed" THEN {d \in ds : d.ref # w.ref}
  ELSE ds

RECURSIVE Replay(_, _)
Replay(ds, log) ==
  IF log = <<>> THEN ds ELSE Replay(ApplyWrite(ds, Head(log)), Tail(log))

\* C7: in every reachable state each favorite is a complete entry (its
\* coinId, that of its key, and a createdAt the store assigned); a toggle that
\* has not committed (its attempts in flight, aborted or being retried) and a
\* toggle that ended with 500 have written nothing; and the store holds what
\* the commits of the toggles answered 200 made of the initial documents,
\* nothing else.
C7_NoPartialMutation ==
  /\ \A d \in docs :
       /\ d.coinId = d.ref.id /\ CoinIdOk(d.coinId)
       /\ d.createdAt \in 1..clock
  /\ \A r \in Reqs :
       (req[r].kind = "toggle" /\ (req[r].pc \in {"get", "commit"} \/ Answered(r, 500)))
       => WritesBy(r) = {}
  /\ docs = Replay(InitDocs, wlog)
  /\ Len(wlog) =
       Cardinality({r \in Reqs : req[r].kind = "toggle" /\ Answered(r, 200)})

\* A toggle that ended with 500 on its second attempt, two others having
\* committed meanwhile.
C7_Witness ==
  \E r \in Reqs :
    /\ req[r].kind = "toggle" /\ Answered(r, 500)
    /\ req[r].attempt = 2
    /\ Cardinality(WritesTo(req[r].ref)) = 2

\* The committed writes of the toggles of (userId, coinId), in commit order.
IsOn(w, userId, coinId) == w.ref.user = userId /\ w.coinId = coinId
LogOf(userId, coinId) ==
  LET Test(w) == IsOn(w, userId, coinId) IN SelectSeq(wlog, Test)

\* No other toggle of r's pair overlaps r.
Isolated(r) ==
  \A q \in Reqs \ {r} :
    (/\ req[q].kind = "toggle" /\ reached[q]
     /\ req[q].userId = req[r].userId /\ req[q].coinId = req[r].coinId)
    => q \in prior[r] \/ r \in prior[q]

\* A commit leaves every entry of another user or another coin as it was, and
\* answers by the presence of its own entry alone.
C9_Commit ==
  wlog' # wlog =>
    LET w == wlog'[Len(wlog')]
        r == w.by
        Own(d) == d.ref.user = req[r].userId /\ d.coinId = req[r].coinId
    IN  /\ {d \in docs : ~Own(d)} = {d \in docs' : ~Own(d)}
        /\ (req'[r].pc = "done" /\ Len(sent'[r]) = 1 /\ sent'[r][1].status = 200)
           => (sent'[r][1].favorited <=> ~\E d \in docs : Own(d))

\* The writes to a pair create and remove in turn, from the pair's initial
\* presence on; a toggle that no toggle of its pair overlaps is never aborted;
\* and a commit is refused only for a write to its own pair.
C9_PerKey ==
  /\ \A i \in DOMAIN wlog :
       LET u == wlog[i].ref.user
           c == wlog[i].coinId
           log == LogOf(u, c)
           present == \E d \in InitDocs : d.ref.user = u /\ d.coinId = c
       IN  \A j \in DOMAIN log :
             log[j].effect = IF present <=> Odd(j) THEN "removed" ELSE "created"
  /\ \A r \in Reqs :
       (req[r].kind = "toggle" /\ reached[r])
       => /\ Isolated(r) => req[r].attempt <= 1
          /\ (req[r].pc = "commit" /\ ~Validates(r))
             => \E i \in DOMAIN wlog :
                  /\ IsOn(wlog[i], req[r].userId, req[r].coinId)
                  /\ wlog[i].time > req[r].snap.ver

\* C9: toggles on different keys are independent: a toggle's commit leaves
\* the presence and createdAt of every entry of another user or coin
\* unchanged, its favorited value is decided by the presence of its own
\* entry, and whatever toggles of other keys are interleaved, the writes to a
\* key alternate from its initial state and a toggle alone on its key commits
\* on its first attempt.
C9_IndependentKeys == [][C9_Commit /\ C9_PerKey']_vars

\* Three toggles answered 200, the second to commit on another key than the
\* first and the third, which share theirs.
C9_Witness ==
  /\ Len(wlog) = 3
  /\ wlog[1].ref = wlog[3].ref /\ wlog[2].ref # wlog[1].ref
  /\ \A i \in DOMAIN wlog : Answered(wlog[i].by, 200)
  /\ wlog[3].effect = "removed"

\* fs names exactly the coins of userId's entries in ds, each once, a later
\* created one before an earlier.
IsListingOf(fs, ds, userId) ==
  LET mine == {d \in ds : d.ref.user = userId} IN
    /\ Len(fs) = Cardinality(mine)
    /\ {fs[i] : i \in DOMAIN fs} = {d.coinId : d \in mine}
    /\ \A i, j \in DOMAIN fs :
         i < j => \A d, e \in mine :
                    (d.coinId = fs[i] /\ e.coinId = fs[j])
                    => d.createdAt > e.createdAt

\* Request r's query is answered with 200 in this step.
ListAnswered(r) ==
  /\ req[r].kind = "list" /\ req[r].pc = "query"
  /\ req'[r].pc = "done"
  /\ sent'[r] # <<>> /\ sent'[r][Len(sent'[r])].status = 200

\* C5: a getFavorites answered 200 returns exactly the coinIds of the user's
\* entries present in the store when the query is answered, each once, the
\* most recently created first; for a user without entries it is the empty
\* sequence, with 200. After btc, eth and xrp were added in that order it
\* is <<xrp, eth, btc>>; after btc, eth were added and btc toggled off it is
\* <<eth>>.
C5_ListsPresentNewestFirst ==
  [][\A r \in Reqs :
       ListAnswered(r)
       => /\ Len(sent'[r]) = 1
          /\ sent'[r][1].data = "favorites"
          /\ IsListingOf(sent'[r][1].favorites, docs, req[r].userId)
          /\ ({d.coinId : d \in Favorites(docs, USR)} = {BTC, ETH, XRP}
                /\ req[r].userId = USR /\ Len(wlog) = 1)
             => sent'[r][1].favorites = <<XRP, ETH, BTC>>
          /\ ({d.coinId : d \in Favorites(docs, USR)} = {ETH}
                /\ req[r].userId = USR /\ Len(wlog) = 1)
             => sent'[r][1].favorites = <<ETH>>
          /\ Favorites(docs, req[r].userId) = {}
             => sent'[r][1].favorites = <<>>]_vars

\* usr, who added btc then eth, has added xrp and removed btc, and was
\* answered <<xrp, eth>>.
C5_Witness ==
  \E r \in Reqs :
    /\ req[r].kind = "list" /\ Answered(r, 200)
    /\ sent[r][1].favorites = <<XRP, ETH>>
    /\ Len(wlog) = 2

\* The documents before, and after, the i-th committed write.
DocsBefore(i) == Replay(InitDocs, SubSeq(wlog, 1, i - 1))
DocsAfter(i) == Replay(InitDocs, SubSeq(wlog, 1, i))

\* The i-th and the next committed write are those of two toggles of one
\* key, both answered 200, the second sent after the first was answered:
\* nothing was written in between.
ToggledTwice(i) ==
  /\ i \in DOMAIN wlog /\ i + 1 \in DOMAIN wlog
  /\ wlog[i].ref = wlog[i + 1].ref
  /\ wlog[i].by \in prior[wlog[i + 1].by]
  /\ Answered(wlog[i].by, 200) /\ Answered(wlog[i + 1].by, 200)

Without(s, x) == LET Keep(y) == y # x IN SelectSeq(s, Keep)

\* C3 as claimed: two sequential successful toggles of one key return
\* opposite favorited values, and getFavorites(userId) returns the same
\* sequence after the two as before them, whether the entry was absent or
\* present at the start.
C3_Original ==
  \A i \in DOMAIN wlog :
    ToggledTwice(i)
    => LET u == wlog[i].ref.user IN
         /\ sent[wlog[i].by][1].favorited # sent[wlog[i + 1].by][1].favorited
         /\ Listing(DocsAfter(i + 1), u) = Listing(DocsBefore(i), u)

\* C3, amended: two sequential successful toggles of one key return opposite
\* favorited values and leave the user's favorites the same set of coinIds.
\* When the entry was absent at the start, getFavorites(userId) returns the
\* same sequence after the two as before; when it was present, the second
\* toggle creates it anew, with a new createdAt, and the coin is first in
\* the sequence after the two, the other coins in their order.
C3_ToggleTwiceRestoresSet ==
  \A i \in DOMAIN wlog :
    ToggledTwice(i)
    => LET u == wlog[i].ref.user
           c == wlog[i].coinId
           before == Listing(DocsBefore(i), u)
           after == Listing(DocsAfter(i + 1), u)
       IN  /\ sent[wlog[i].by][1].favorited # sent[wlog[i + 1].by][1].favorited
           /\ Range(after) = Range(before)
           /\ ~Exists(DocsBefore(i), wlog[i].ref) => after = before
           /\ Exists(DocsBefore(i), wlog[i].ref)
              => after = <<c>> \o Without(before, c)

\* usr's btc, the older of two favorites, toggled off and on again: the
\* listing was <<eth, btc>> and is <<btc, eth>>.
C3_Witness ==
  \E i \in DOMAIN wlog :
    /\ ToggledTwice(i)
    /\ Exists(DocsBefore(i), wlog[i].ref)
    /\ Listing(DocsBefore(i), USR) = <<ETH, BTC>>
    /\ Listing(DocsAfter(i + 1), USR) = <<BTC, ETH>>
    /\ docs = DocsAfter(i + 1)

\* Toggle r2 is toggle r1 sent again: the same request, sent once the caller
\* was through with r1, and answered 200; both handlers have returned.
Resent(r1, r2) ==
  /\ req[r1].kind = "toggle" /\ req[r2].kind = "toggle"
  /\ reached[r1] /\ reached[r2]
  /\ req[r1].http = req[r2].http
  /\ r1 \in prior[r2]
  /\ req[r1].pc = "done"
  /\ Answered(r2, 200)

\* C8 as claimed: when a toggle ended with 500, or its caller gave up on it,
\* and the same request sent again is answered 200, the two together have
\* committed exactly one write to the entry.
C8_Original ==
  \A r1, r2 \in Reqs :
    (Resent(r1, r2) /\ (Answered(r1, 500) \/ abandoned[r1]))
    => Cardinality(WritesBy(r1) \cup WritesBy(r2)) = 1

\* C8, amended: when a toggle ended with 500 (the store having reported its
\* transaction as not committed) and the same request sent again is answered
\* 200, the first has written nothing and the second has committed exactly
\* one write: the two together are one toggle. When the caller gave up on the
\* first on a timeout, its transaction may have committed or commit later;
\* if it does, the two requests together are two toggles.
C8_ResendAfterFailure ==
  \A r1, r2 \in Reqs :
    Resent(r1, r2)
    => /\ Answered(r1, 500)
          => /\ WritesBy(r1) = {}
             /\ Cardinality(WritesBy(r2)) = 1
             /\ \A i \in WritesBy(r2) : wlog[i].effect \in {"created", "removed"}
       /\ (abandoned[r1] /\ Answered(r1, 200))
          => Cardinality(WritesBy(r1) \cup WritesBy(r2)) = 2

\* A toggle that ended with 500 on its second attempt, and the same request
\* sent again and answered 200.
C8_Witness ==
  \E r1, r2 \in Reqs :
    /\ Resent(r1, r2)
    /\ Answered(r1, 500) /\ req[r1].attempt = 2
    /\ Cardinality(WritesBy(r2)) = 1

\* A validated toggle that has not returned yet.
InFlight(r) == req[r].kind = "toggle" /\ req[r].pc \in {"get", "commit"}

\* The handler of r has returned, having sent exactly one answer: the 200
\* envelope with its favorited value, or the 500 failure envelope.
Ended(r) ==
  /\ req[r].pc = "done"
  /\ Len(sent[r]) = 1
  /\ \/ sent[r][1] = Toggled(TRUE) \/ sent[r][1] = Toggled(FALSE)
     \/ sent[r][1] = ToggleFailed

\* C10: every toggle that passes the validation ends with exactly one answer,
\* whatever the contention on its key: it never runs more than MaxAttempts
\* attempts, never has two answers, has returned only with the 200 or the 500
\* envelope, and does return.
C10_EveryToggleAnswered ==
  /\ [](\A r \in Reqs :
          /\ req[r].attempt <= MaxAttempts
          /\ Len(sent[r]) <= 1
          /\ (req[r].kind = "toggle" /\ reached[r] /\ req[r].pc = "done")
             => Ended(r))
  /\ \A r \in Reqs : InFlight(r) ~> Ended(r)

\* Three toggles of one key have ended, one with 500 after its last attempt
\* was aborted like the ones before, the others having committed.
C10_Witness ==
  \E r \in Reqs :
    /\ req[r].kind = "toggle" /\ Answered(r, 500)
    /\ req[r].attempt = MaxAttempts
    /\ Cardinality(WritesTo(req[r].ref)) = 2
    /\ \A q \in Reqs : req[q].kind = "toggle" /\ req[q].ref = req[r].ref /\ Ended(q)

====
